---- MODULE Spec2Model ----
(***************************************************************************)
(* A model of scripts/fit_offset_models.py: the z-score filtered polynomial *)
(* fit (fit_with_zscore), the joblib model files (save_model, load_model),  *)
(* the summary report (save_summary) and the command line program (main).   *)
(*                                                                          *)
(* Floating point numbers are modelled as exact rationals <<n, d>> in       *)
(* lowest terms with d > 0; d = 0 encodes the non-finite values:            *)
(* <<1, 0>> is +inf, <<-1, 0>> is -inf and <<0, 0>> is NaN.  Rounding       *)
(* error is not modelled.  The standard deviation is kept as its square     *)
(* (the variance) and z-scores as their squares: for non-negative numbers   *)
(* a < b iff a^2 < b^2.                                                     *)
(*                                                                          *)
(* Polynomial degrees are restricted to Degrees = {0, 1}: for these the     *)
(* least-squares solution numpy returns is rational in every case,          *)
(* including the rank-deficient one.                                        *)
(***************************************************************************)
EXTENDS Integers, Sequences, FiniteSets, TLC

VARIABLES
    \* ---- one direct call of fit_with_zscore(x, y, degree, z) ----
    fx, fy, fdeg, fz,   \* the arguments
    fpc,                \* "init" before the call, "returned" after it
    fres,               \* the outcome of the call (a record, see Raised)
    \* ---- the command line program and the files it works on ----
    files,              \* file name -> NoFile or the sequence of items written
    pc,                 \* position of the running process in main()
    args,               \* parsed command line of the running process
    locals,             \* local variables of main()
    wr,                 \* the open file being written: name and items still to write
    stdout,             \* values printed by the running process
    err,                \* the exception that ended the run, "none" otherwise
    files0,             \* history: the files when the running process started
    runs,               \* history: the number of processes started so far
    lastSaved           \* history: slot -> the model of the last completed save_model

fitvars  == <<fx, fy, fdeg, fz, fpc, fres>>
progvars == <<files, pc, args, locals, wr, stdout, err, files0, runs, lastSaved>>
vars     == <<fx, fy, fdeg, fz, fpc, fres,
              files, pc, args, locals, wr, stdout, err, files0, runs, lastSaved>>

----------------------------------------------------------------------------
(* Bounds of the model *)

\* longest sample sequence drawn for a direct call of fit_with_zscore
MaxLen == 3

\* number of processes run one after the other on the same files
MaxRuns == 2

\* longest sample drawn from LongYVals for a direct call of fit_with_zscore
MaxPoints == 9

\* polynomial degrees the model fits
Degrees == {0, 1}

----------------------------------------------------------------------------
(* float64 as exact rationals *)

NaN    == <<0, 0>>
PosInf == <<1, 0>>
NegInf == <<-1, 0>>

Abs(a) == IF a < 0 THEN -a ELSE a

RECURSIVE Gcd(_, _)
Gcd(a, b) == IF b = 0 THEN a ELSE Gcd(b, a % b)

\* the rational n/d (d # 0) in lowest terms with a positive denominator
Norm(n, d) ==
    LET g == Gcd(Abs(n), Abs(d))
        s == IF d < 0 THEN -1 ELSE 1
    IN  <<s * (n \div g), Abs(d) \div g>>

R(k) == <<k, 1>>

IsFinite(a) == a[2] > 0
IsNaN(a)    == a = NaN

RAdd(a, b) ==
    LET g == Gcd(a[2], b[2])
    IN  Norm(a[1] * (b[2] \div g) + b[1] * (a[2] \div g), (a[2] \div g) * b[2])

RNeg(a) == <<-a[1], a[2]>>

RSub(a, b) == RAdd(a, RNeg(b))

RMul(a, b) ==
    LET g1 == Gcd(Abs(a[1]), b[2])
        g2 == Gcd(Abs(b[1]), a[2])
    IN  Norm((a[1] \div g1) * (b[1] \div g2), (a[2] \div g2) * (b[2] \div g1))

\* a / b for finite a and finite b # 0
RDiv(a, b) == RMul(a, Norm(b[2], b[1]))

RSq(a) == RMul(a, a)

RLess(a, b) == a[1] * b[2] < b[1] * a[2]

RECURSIVE RSum(_)
RSum(s) == IF s = <<>> THEN R(0) ELSE RAdd(Head(s), RSum(Tail(s)))

AllFinite(s) == \A i \in 1..Len(s) : IsFinite(s[i])

\* a[mask]: the elements of a at the positions where mask is TRUE, in order
RECURSIVE BoolIndex(_, _)
BoolIndex(a, mask) ==
    IF a = <<>> THEN <<>>
    ELSE IF Head(mask) THEN <<Head(a)>> \o BoolIndex(Tail(a), Tail(mask))
         ELSE BoolIndex(Tail(a), Tail(mask))

RECURSIVE SeqMin(_)
SeqMin(s) ==
    IF Len(s) = 1 THEN s[1]
    ELSE LET m == SeqMin(Tail(s)) IN IF RLess(m, Head(s)) THEN m ELSE Head(s)

RECURSIVE SeqMax(_)
SeqMax(s) ==
    IF Len(s) = 1 THEN s[1]
    ELSE LET m == SeqMax(Tail(s)) IN IF RLess(Head(s), m) THEN m ELSE Head(s)

----------------------------------------------------------------------------
(* numpy: ndarray.mean, ndarray.std *)

\* y.mean() of a non-empty finite array
Mean(y) == RDiv(RSum(y), R(Len(y)))

\* y.std() ** 2, the population variance (ddof = 0) over all of y; NaN for an
\* empty array and for an array holding a non-finite value (inf - inf, NaN)
y_var(y) ==
    IF Len(y) = 0 \/ ~AllFinite(y) THEN NaN
    ELSE LET m == Mean(y)
         IN  RDiv(RSum([i \in 1..Len(y) |-> RSq(RSub(y[i], m))]), R(Len(y)))

\* the squared deviations from the mean, not divided by the variance
deviations2(y) ==
    LET m == Mean(y)
    IN  [i \in 1..Len(y) |-> RSq(RSub(y[i], m))]

\* the deviations divided by the variance instead of the standard deviation
zscores2_by_variance(y) ==
    LET m == Mean(y)
        v == y_var(y)
    IN  [i \in 1..Len(y) |-> RDiv(RSq(RSub(y[i], m)), RSq(v))]

\* the squares of np.abs((y - y.mean()) / y_std), for a finite non-zero y_std
zscores2(y) ==
    LET m == Mean(y)
        v == y_var(y)
    IN  [i \in 1..Len(y) |-> RDiv(RSq(RSub(y[i], m)), v)]

\* the same comparison with <= : a point at the threshold is kept
ZLessOrEqual(q2, z) ==
    IF IsNaN(z) THEN FALSE
    ELSE IF z = PosInf THEN TRUE
    ELSE IF z[1] < 0 THEN FALSE
    ELSE ~RLess(RSq(z), q2)

\* the same comparison with an infinite threshold treated like NaN
ZLessFiniteOnly(q2, z) ==
    IF ~IsFinite(z) THEN FALSE
    ELSE IF z[1] <= 0 THEN FALSE
    ELSE RLess(q2, RSq(z))

\* zscore < z for a finite zscore >= 0 given by its square q2
ZLess(q2, z) ==
    IF IsNaN(z) THEN FALSE
    ELSE IF z = PosInf THEN TRUE
    ELSE IF z[1] <= 0 THEN FALSE
    ELSE RLess(q2, RSq(z))

\* mask of the points kept, as computed by fit_with_zscore
Mask(y, z) ==
    LET v == y_var(y)
    IN  IF v = R(0) \/ IsNaN(v)
        THEN [i \in 1..Len(y) |-> TRUE]
        ELSE LET zs == zscores2(y)
             IN  [i \in 1..Len(y) |-> ZLess(zs[i], z)]

----------------------------------------------------------------------------
(* numpy.polynomial: Polynomial.fit, convert, __call__ *)

\* the default domain and window of the Polynomial class
DefaultDomain == <<R(-1), R(1)>>

\* pu.mapparms(old, new): the offset and scale of the linear map old -> new
mapparms(old, new) ==
    LET oldlen == RSub(old[2], old[1])
        newlen == RSub(new[2], new[1])
    IN  [off |-> RDiv(RSub(RMul(old[2], new[1]), RMul(old[1], new[2])), oldlen),
         scl |-> RDiv(newlen, oldlen)]

\* pu.getdomain(x), widened by one on each side when x.min() == x.max()
getdomain(x) ==
    LET lo == SeqMin(x)
        hi == SeqMax(x)
    IN  IF lo = hi THEN <<RSub(lo, R(1)), RAdd(hi, R(1))>> ELSE <<lo, hi>>

\* np.linalg.lstsq on the Vandermonde matrix of the mapped points u, for
\* degree 0 and 1.  When all u are equal (then they are all 0, the centre of
\* the widened domain) the matrix has rank 1 and lstsq returns the
\* minimum-norm solution <<mean(y), 0>>.
lstsq(u, y, degree) ==
    LET n   == R(Len(u))
        su  == RSum(u)
        sy  == RSum(y)
        suu == RSum([i \in 1..Len(u) |-> RSq(u[i])])
        suy == RSum([i \in 1..Len(u) |-> RMul(u[i], y[i])])
        det == RSub(RMul(n, suu), RSq(su))
    IN  IF degree = 0 THEN <<RDiv(sy, n)>>
        ELSE IF det = R(0) THEN <<RDiv(sy, n), R(0)>>
        ELSE LET b == RDiv(RSub(RMul(n, suy), RMul(su, sy)), det)
                 a == RDiv(RSub(sy, RMul(b, su)), n)
             IN  <<a, b>>

\* Polynomial.fit(x, y, deg) for finite non-empty x, y of equal length: the
\* coefficients are those of the polynomial in u = off + scl * x
Polynomial_fit(x, y, degree) ==
    LET domain == getdomain(x)
        m      == mapparms(domain, DefaultDomain)
        u      == [i \in 1..Len(x) |-> RAdd(m.off, RMul(m.scl, x[i]))]
    IN  [coef |-> lstsq(u, y, degree), domain |-> domain, window |-> DefaultDomain]

\* pu.trimseq: drop trailing zero coefficients, keeping at least one
RECURSIVE trimseq(_)
trimseq(c) ==
    IF Len(c) > 1 /\ c[Len(c)] = R(0) THEN trimseq(SubSeq(c, 1, Len(c) - 1)) ELSE c

\* a Polynomial left as Polynomial.fit returned it (no conversion)
NoConvert(p) == p

\* p.convert(): the same polynomial over the default domain and window, its
\* coefficients those of ascending powers of x itself
convert(p) ==
    LET m == mapparms(p.domain, p.window)
        c == p.coef
    IN  [coef   |-> IF Len(c) = 1 THEN c
                    ELSE trimseq(<<RAdd(c[1], RMul(c[2], m.off)), RMul(c[2], m.scl)>>),
         domain |-> DefaultDomain,
         window |-> DefaultDomain]

\* polyval(q, c): Horner's rule over ascending-power coefficients
RECURSIVE polyval(_, _)
polyval(q, c) ==
    IF Len(c) = 1 THEN c[1] ELSE RAdd(c[1], RMul(q, polyval(q, Tail(c))))

\* p(q), Polynomial.__call__: q is mapped from domain to window first
Call(p, q) ==
    LET m == mapparms(p.domain, p.window)
    IN  polyval(RAdd(m.off, RMul(m.scl, q)), p.coef)

----------------------------------------------------------------------------
(* sklearn.metrics.r2_score for finite inputs *)

r2_score(y_true, y_pred) ==
    IF Len(y_pred) < 2 THEN NaN    \* "not well-defined with less than two samples"
    ELSE LET n     == Len(y_true)
             m     == Mean(y_true)
             numer == RSum([i \in 1..n |-> RSq(RSub(y_true[i], y_pred[i]))])
             denom == RSum([i \in 1..n |-> RSq(RSub(y_true[i], m))])
         IN  IF denom # R(0) THEN RSub(R(1), RDiv(numer, denom))
             ELSE IF numer = R(0) THEN R(1)
             ELSE R(0)

----------------------------------------------------------------------------
(* fit_with_zscore *)

NoModel == [coef |-> <<>>, domain |-> <<>>, window |-> <<>>]

\* the call raised exception e after computing mask
Raised(e, mask) ==
    [err |-> e, mask |-> mask, x_clean |-> <<>>, y_clean |-> <<>>,
     p_clean |-> NoModel, r2 |-> NaN]

NotCalled == Raised("not called", <<>>)

\* The set of outcomes of fit_with_zscore(x, y, degree, z).  It has one
\* element except on non-finite data, where LAPACK either fails to converge
\* (LinAlgError) or returns NaN coefficients that r2_score then rejects
\* (ValueError).
fit_with_zscore(x, y, degree, z) ==
    LET mask == Mask(y, z)
    IN  IF Len(x) # Len(mask)
        THEN {Raised("IndexError", mask)}              \* x[mask]
        ELSE
        LET x_clean == BoolIndex(x, mask)
            y_clean == BoolIndex(y, mask)
        IN  IF Len(x_clean) = 0
            THEN {Raised("TypeError", mask)}            \* Polynomial.fit: empty x
            ELSE IF ~AllFinite(x_clean) \/ ~AllFinite(y_clean)
            THEN {Raised("LinAlgError", mask), Raised("ValueError", mask)}
            ELSE
            LET p_clean == convert(Polynomial_fit(x_clean, y_clean, degree))
                y_pred  == [i \in 1..Len(x_clean) |-> Call(p_clean, x_clean[i])]
            IN  {[err |-> "none", mask |-> mask, x_clean |-> x_clean,
                  y_clean |-> y_clean, p_clean |-> p_clean,
                  r2 |-> r2_score(y_clean, y_pred)]}

----------------------------------------------------------------------------
(* joblib model files and the summary report *)

AzFile  == "model_offset_az.joblib"
ElFile  == "model_offset_el.joblib"
OutFile == "fit_results.txt"
Slots     == {AzFile, ElFile}
FileNames == {AzFile, ElFile, OutFile}

\* a file is absent, or holds the sequence of items written to it so far
NoFile    == [exists |-> FALSE, data |-> <<>>]
EmptyFile == [exists |-> TRUE, data |-> <<>>]

Item(op, arg) == [op |-> op, arg |-> arg]

\* joblib.dump(model, f) writes the pickle of the Polynomial object: the class
\* reference, the arrays coef, domain and window of its state, and the
\* closing STOP opcode
dumps(model) ==
    << Item("GLOBAL numpy.polynomial.polynomial Polynomial", <<>>),
       Item("coef", model.coef),
       Item("domain", model.domain),
       Item("window", model.window),
       Item("STOP", <<>>) >>

ArgOf(data, k) == IF k <= Len(data) THEN data[k].arg ELSE <<>>

\* a reader that takes whatever items the file holds for a model
loads_lenient(data) ==
    IF Len(data) < 2
    THEN [err |-> "EOFError", model |-> NoModel]
    ELSE [err |-> "none",
          model |-> [coef |-> ArgOf(data, 2), domain |-> ArgOf(data, 3),
                     window |-> ArgOf(data, 4)]]

\* the unpickler: it reads opcodes up to STOP and fails on a stream that
\* ends before it
loads(data) ==
    IF Len(data) < 5 \/ data[Len(data)].op # "STOP"
    THEN [err |-> "EOFError", model |-> NoModel]
    ELSE [err |-> "none",
          model |-> [coef |-> data[2].arg, domain |-> data[3].arg,
                     window |-> data[4].arg]]

\* load_model(filename) on the file f
load_model(f) ==
    IF ~f.exists THEN [err |-> "FileNotFoundError", model |-> NoModel]
    ELSE loads(f.data)

\* f"{v:.4f}": v in units of 0.0001, rounded half to even
Format4(v) ==
    LET n == v[1] * 10000
        q == n \div v[2]
        r == n % v[2]
    IN  IF ~IsFinite(v) THEN v
        ELSE IF 2 * r > v[2] \/ (2 * r = v[2] /\ q % 2 = 1) THEN <<q + 1, 10000>>
        ELSE <<q, 10000>>

Line(text, val) == [text |-> text, val |-> val]

\* the report with the blank line between the polynomial and its R2 line
summary_lines_blank_before_r2(model_az, r2_az, model_el, r2_el) ==
    << Line("Model: offset_az = f(azimuth)", <<>>),
       Line("str(model)", model_az.coef),
       Line("", <<>>),
       Line("R2 =", Format4(r2_az)),
       Line("Model: offset_el = f(elevation)", <<>>),
       Line("str(model)", model_el.coef),
       Line("", <<>>),
       Line("R2 =", Format4(r2_el)) >>

\* the lines save_summary writes
summary_lines(model_az, r2_az, model_el, r2_el) ==
    << Line("Model: offset_az = f(azimuth)", <<>>),
       Line("str(model)", model_az.coef),
       Line("R2 =", Format4(r2_az)),
       Line("", <<>>),
       Line("Model: offset_el = f(elevation)", <<>>),
       Line("str(model)", model_el.coef),
       Line("R2 =", Format4(r2_el)) >>

----------------------------------------------------------------------------
(* The command line program *)

None == <<>>

\* the tables load_data can return: rows <<azimuth, elevation, offset_az,
\* offset_el>> with no NaN (dropna), possibly an infinity (to_numeric
\* parses "inf")
TableA == << <<R(0), R(0), R(0), R(1)>>,
             <<R(1), R(2), R(1), R(0)>>,
             <<R(2), R(4), R(1), R(2)>> >>
TableB == << <<R(0), R(1), R(2), R(1)>>,
             <<R(4), PosInf, R(0), R(3)>> >>
TableOne == << <<R(1), R(2), R(3), R(4)>> >>
TableEmpty == <<>>

\* tsv_file: 0 names a file that does not exist
TsvFiles == {0, 1, 2, 3, 4}

Table(t) == IF t = 1 THEN TableA ELSE IF t = 2 THEN TableB
            ELSE IF t = 4 THEN TableOne ELSE TableEmpty

Column(df, k) == [i \in 1..Len(df) |-> df[i][k]]

\* query angles given on the command line; None when the option is absent
AzAngles == {None, R(0), R(3)}
ElAngles == {None, <<5, 2>>}

\* bool(v) of an optional float: None and 0.0 are false
Truthy(v) == v # None /\ v # R(0)

\* the command lines drawn; a line with a query angle, and a line whose
\* --output cannot be opened, names table 1 and degree 1
CommandLines ==
    {a \in [tsv_file : TsvFiles, degree : Degrees, output_ok : BOOLEAN,
            predict_az : AzAngles, predict_el : ElAngles] :
        /\ (a.predict_az # None \/ a.predict_el # None) =>
                (a.tsv_file = 1 /\ a.degree = 1 /\ a.output_ok)
        /\ ~a.output_ok => (a.tsv_file = 1 /\ a.degree = 1)}

NoArgs   == [tsv_file |-> 0, degree |-> 0, output_ok |-> TRUE,
             predict_az |-> None, predict_el |-> None]
NoLocals == [df |-> <<>>, az |-> NotCalled, el |-> NotCalled, model |-> NoModel,
             stage |-> ""]
NoWrite  == [name |-> "", todo |-> <<>>]
NoSave   == [model |-> NoModel, pending |-> NoModel]

Terminal == {"exit", "failed", "crashed"}

ProgInit ==
    /\ files = [f \in FileNames |-> NoFile]
    /\ pc = "exit"
    /\ args = NoArgs
    /\ locals = NoLocals
    /\ wr = NoWrite
    /\ stdout = <<>>
    /\ err = "none"
    /\ files0 = [f \in FileNames |-> NoFile]
    /\ runs = 0
    /\ lastSaved = [f \in Slots |-> NoSave]

\* an exception e propagates out of main() from the given stage
Fail(e, stage) ==
    /\ pc' = "failed"
    /\ err' = e
    /\ locals' = [locals EXCEPT !.stage = stage]

\* a process starts with command line a and takes the branch of main()
Start(a) ==
    /\ pc \in Terminal
    /\ runs < MaxRuns
    /\ runs' = runs + 1
    /\ args' = a
    /\ locals' = NoLocals
    /\ wr' = NoWrite
    /\ stdout' = <<>>
    /\ err' = "none"
    /\ files0' = files
    /\ pc' = IF Truthy(a.predict_az) \/ Truthy(a.predict_el)
             THEN "predict_az" ELSE "load_data"
    /\ UNCHANGED <<files, lastSaved>>
    /\ UNCHANGED fitvars

\* the block "if args.predict_<axis>:" of the prediction mode
Predict(here, angle, slot, label, next) ==
    /\ pc = here
    /\ IF Truthy(angle)
       THEN LET r == load_model(files[slot])
            IN  IF r.err # "none"
                THEN Fail(r.err, here) /\ UNCHANGED stdout
                ELSE /\ locals' = [locals EXCEPT !.model = r.model]
                     /\ stdout' = Append(stdout, Line(label, Format4(Call(r.model, angle))))
                     /\ pc' = next
                     /\ UNCHANGED err
       ELSE pc' = next /\ UNCHANGED <<locals, stdout, err>>
    /\ UNCHANGED <<files, args, wr, files0, runs, lastSaved>>
    /\ UNCHANGED fitvars

PredictAz == Predict("predict_az", args.predict_az, AzFile, "Predicted offset_az:", "predict_el")

PredictEl == Predict("predict_el", args.predict_el, ElFile, "Predicted offset_el:", "exit")

\* df = load_data(args.tsv_file)
LoadData ==
    /\ pc = "load_data"
    /\ IF args.tsv_file = 0
       THEN Fail("FileNotFoundError", "load_data")
       ELSE /\ locals' = [locals EXCEPT !.df = Table(args.tsv_file)]
            /\ pc' = "fit_az"
            /\ UNCHANGED err
    /\ UNCHANGED <<files, args, wr, stdout, files0, runs, lastSaved>>
    /\ UNCHANGED fitvars

\* model, x, y, r2 = fit_with_zscore(df[xcol], df[ycol], degree=args.degree)
\* and the three prints that follow it
Fit(here, xcol, ycol, header, next) ==
    /\ pc = here
    /\ \E r \in fit_with_zscore(Column(locals.df, xcol), Column(locals.df, ycol),
                                args.degree, R(3)) :
          IF r.err # "none"
          THEN Fail(r.err, here) /\ UNCHANGED stdout
          ELSE /\ locals' = IF here = "fit_az" THEN [locals EXCEPT !.az = r]
                            ELSE [locals EXCEPT !.el = r]
               /\ stdout' = stdout \o << Line(header, <<>>),
                                         Line("str(model)", r.p_clean.coef),
                                         Line("R2 =", Format4(r.r2)) >>
               /\ pc' = next
               /\ UNCHANGED err
    /\ UNCHANGED <<files, args, wr, files0, runs, lastSaved>>
    /\ UNCHANGED fitvars

FitAz == Fit("fit_az", 1, 3, "Model: offset_az = f(azimuth)", "save_az")

FitEl == Fit("fit_el", 2, 4, "Model: offset_el = f(elevation)", "save_el")

\* both models go to the azimuth file
SlotAlwaysAz(p) == AzFile

\* the file name main passes to save_model at p
SlotOf(p) == IF p \in {"save_az", "save_az_write"} THEN AzFile ELSE ElFile

\* save_model(model, filename): joblib.dump opens the file for writing,
\* which truncates it
SaveModelOpen ==
    /\ pc \in {"save_az", "save_el"}
    /\ LET slot  == SlotOf(pc)
           model == IF pc = "save_az" THEN locals.az.p_clean ELSE locals.el.p_clean
       IN  /\ files' = [files EXCEPT ![slot] = EmptyFile]
           /\ wr' = [name |-> slot, todo |-> dumps(model)]
           /\ lastSaved' = [lastSaved EXCEPT ![slot].pending = model]
    /\ pc' = IF pc = "save_az" THEN "save_az_write" ELSE "save_el_write"
    /\ UNCHANGED <<args, locals, stdout, err, files0, runs>>
    /\ UNCHANGED fitvars

\* the next item of the pickle reaches the file
SaveModelWrite ==
    /\ pc \in {"save_az_write", "save_el_write"}
    /\ wr.todo # <<>>
    /\ files' = [files EXCEPT ![wr.name].data = Append(@, Head(wr.todo))]
    /\ wr' = [wr EXCEPT !.todo = Tail(@)]
    /\ UNCHANGED <<pc, args, locals, stdout, err, files0, runs, lastSaved>>
    /\ UNCHANGED fitvars

\* the pickle is written and the file closed: save_model returns
SaveModelClose ==
    /\ pc \in {"save_az_write", "save_el_write"}
    /\ wr.todo = <<>>
    /\ lastSaved' = [lastSaved EXCEPT ![wr.name] =
                        [model |-> @.pending, pending |-> NoModel]]
    /\ pc' = IF pc = "save_az_write" THEN "fit_el" ELSE "save_summary"
    /\ wr' = NoWrite
    /\ UNCHANGED <<files, args, locals, stdout, err, files0, runs>>
    /\ UNCHANGED fitvars

\* save_summary: open(filename, "w") truncates the report, or fails when the
\* path cannot be opened
SaveSummaryOpen ==
    /\ pc = "save_summary"
    /\ IF ~args.output_ok
       THEN Fail("FileNotFoundError", "save_summary") /\ UNCHANGED <<files, wr>>
       ELSE /\ files' = [files EXCEPT ![OutFile] = EmptyFile]
            /\ wr' = [name |-> OutFile,
                      todo |-> summary_lines(locals.az.p_clean, locals.az.r2,
                                             locals.el.p_clean, locals.el.r2)]
            /\ pc' = "summary_write"
            /\ UNCHANGED <<locals, err>>
    /\ UNCHANGED <<args, stdout, files0, runs, lastSaved>>
    /\ UNCHANGED fitvars

\* the buffered lines are flushed when the with-block closes the report,
\* and main prints where the summary went
SaveSummaryClose ==
    /\ pc = "summary_write"
    /\ files' = [files EXCEPT ![OutFile].data = wr.todo]
    /\ wr' = NoWrite
    /\ stdout' = Append(stdout, Line("Summary saved to:", <<>>))
    /\ pc' = "exit"
    /\ UNCHANGED <<args, locals, err, files0, runs, lastSaved>>
    /\ UNCHANGED fitvars

\* a write to the open file fails (disk full, I/O error)
WriteError ==
    /\ \/ pc \in {"save_az_write", "save_el_write"} /\ wr.todo # <<>>
       \/ pc = "summary_write"
    /\ Fail("OSError", pc)
    /\ UNCHANGED <<files, args, wr, stdout, files0, runs, lastSaved>>
    /\ UNCHANGED fitvars

\* the process is killed
Crash ==
    /\ pc \notin Terminal
    /\ pc' = "crashed"
    /\ locals' = [locals EXCEPT !.stage = pc]
    /\ UNCHANGED <<files, args, wr, stdout, err, files0, runs, lastSaved>>
    /\ UNCHANGED fitvars

FitIdle ==
    /\ fx = <<>> /\ fy = <<>> /\ fdeg = 0 /\ fz = R(3)
    /\ fpc = "init"
    /\ fres = NotCalled

Init == ProgInit /\ FitIdle

StartProcess == \E a \in CommandLines : Start(a)

Next ==
    \/ StartProcess
    \/ PredictAz
    \/ PredictEl
    \/ LoadData
    \/ FitAz
    \/ FitEl
    \/ SaveModelOpen
    \/ SaveModelWrite
    \/ SaveModelClose
    \/ SaveSummaryOpen
    \/ SaveSummaryClose
    \/ WriteError
    \/ Crash

Spec == Init /\ [][Next]_vars

----------------------------------------------------------------------------
(* Direct calls of fit_with_zscore: the inputs *)

\* sample values drawn for x and for y
XVals == {R(0), R(1), PosInf}
YVals == {R(0), R(1), NaN}

\* z thresholds drawn; 3.0 is the default of fit_with_zscore
ZVals == {R(3), R(1), <<1, 2>>, R(0), R(-1), PosInf}

\* y values of the longer samples, drawn at x = 0, 1, 2, ...
LongYVals == {R(0), R(1)}

\* thresholds of the longer samples: the default and infinity
LongZVals == {R(3), PosInf}

SeqsUpTo(S, n) == UNION {[1..k -> S] : k \in 0..n}

\* the outlier scenario: five points on a line and (1000, 500)
ScenarioX == <<R(0), R(10), R(20), R(30), R(40), R(1000)>>
ScenarioY == <<R(0), R(1), R(2), R(3), R(4), R(500)>>

FitInit ==
    /\ \/ /\ fx \in SeqsUpTo(XVals, MaxLen)
          /\ fy \in SeqsUpTo(YVals, MaxLen)
       \/ /\ fx = ScenarioX
          /\ fy = ScenarioY
       \/ \E n \in (MaxLen + 1)..MaxPoints :
             /\ fx = [i \in 1..n |-> R(i - 1)]
             /\ fy \in [1..n -> LongYVals]
             /\ fz \in LongZVals
    /\ fdeg \in Degrees
    /\ fz \in ZVals
    /\ fpc = "init"
    /\ fres = NotCalled
    /\ ProgInit

\* the call fit_with_zscore(fx, fy, degree=fdeg, z=fz) runs and returns or raises
FitCall ==
    /\ fpc = "init"
    /\ fres' \in fit_with_zscore(fx, fy, fdeg, fz)
    /\ fpc' = "returned"
    /\ UNCHANGED <<fx, fy, fdeg, fz>>
    /\ UNCHANGED progvars

FitNext == FitCall

SpecFit == FitInit /\ [][FitNext]_vars

----------------------------------------------------------------------------
(* Properties of fit_with_zscore, checked under SpecFit *)

Returned == fpc = "returned"

\* the inputs the contract of fit admits: finite, of equal non-zero length
ValidInput == Len(fx) = Len(fy) /\ Len(fy) >= 1 /\ AllFinite(fx) /\ AllFinite(fy)

NRetained == Cardinality({i \in DOMAIN fres.mask : fres.mask[i]})

\* The z-score comparison restated over the integers.  The drawn y are
\* integers; with n = len(y), S = sum(y), D(i) = n*y_i - S and
\* Q = sum_j D(j)^2:  mean = S/n, std^2 = Q/n^3, z_i^2 = n*D(i)^2/Q.
YInt(i) == fy[i][1]
RECURSIVE IntSum(_, _)
IntSum(f, k) == IF k = 0 THEN 0 ELSE f[k] + IntSum(f, k - 1)
YSum    == IntSum([i \in 1..Len(fy) |-> YInt(i)], Len(fy))
Dev(i)  == Len(fy) * YInt(i) - YSum
DevSq   == IntSum([i \in 1..Len(fy) |-> Dev(i) * Dev(i)], Len(fy))
StdDefinedNonZero == Len(fy) >= 1 /\ AllFinite(fy) /\ DevSq # 0
ZFinite == IsFinite(fz)
\* z_i < z, z_i = z for a finite threshold z = fz[1]/fz[2]
ZBelow(i) == fz[1] > 0 /\ Len(fy) * Dev(i) * Dev(i) * fz[2] * fz[2] < fz[1] * fz[1] * DevSq
ZAt(i)    == fz[1] >= 0 /\ Len(fy) * Dev(i) * Dev(i) * fz[2] * fz[2] = fz[1] * fz[1] * DevSq

\* C2: when std(y) is defined and non-zero, point i is retained iff
\* |y_i - mean(y)| / std(y) < z_threshold, with mean and std taken over all
\* of y: a point strictly below the threshold is kept, a point exactly at
\* the threshold is rejected, and so is every point above it.
C2_StrictThreshold ==
    (Returned /\ StdDefinedNonZero /\ ZFinite) =>
        \A i \in 1..Len(fy) :
            /\ ZBelow(i) => fres.mask[i]
            /\ ZAt(i) => ~fres.mask[i]
            /\ ~ZBelow(i) => ~fres.mask[i]

\* a call where a point sits exactly at a positive threshold and is rejected
C2_Witness ==
    /\ Returned /\ StdDefinedNonZero /\ ZFinite
    /\ \E i \in 1..Len(fy) : ZAt(i) /\ fz[1] > 0 /\ ~fres.mask[i]

AllEqual(y) == \A i, j \in 1..Len(y) : y[i] = y[j]

\* C3: for every valid input whose y values are all equal, fit retains all
\* points whatever the threshold is and returns R^2 = 1.0.
C3_ConstantY ==
    (Returned /\ ValidInput /\ AllEqual(fy)) =>
        /\ \A i \in 1..Len(fy) : fres.mask[i]
        /\ fres.err = "none"
        /\ fres.r2 = R(1)

\* C4: whenever fewer than degree + 1 points are retained, fit fails with
\* InsufficientDataError and returns no model.
C4_InsufficientData ==
    (Returned /\ ValidInput /\ NRetained < fdeg + 1) =>
        /\ fres.err = "InsufficientDataError"
        /\ fres.p_clean = NoModel

NoFiniteValue ==
    /\ Len(fx) + Len(fy) >= 1
    /\ \A i \in 1..Len(fx) : ~IsFinite(fx[i])
    /\ \A i \in 1..Len(fy) : ~IsFinite(fy[i])

\* C5: fit fails with InvalidInputError whenever len(x) # len(y) or the
\* inputs hold no finite value, and never fits a model from mismatched
\* sequences.
C5_InvalidInput ==
    (Returned /\ (Len(fx) # Len(fy) \/ NoFiniteValue)) =>
        /\ fres.err = "InvalidInputError"
        /\ fres.p_clean = NoModel

IsScenario == fx = ScenarioX /\ fy = ScenarioY /\ fdeg = 1 /\ fz = R(3)

\* C10 as stated: in the scenario the point (1000, 500) is rejected and the
\* line is fitted to the other five points, with R^2 within 0.001 of 1.
C10_OutlierExcluded ==
    (Returned /\ IsScenario) =>
        /\ fres.mask = <<TRUE, TRUE, TRUE, TRUE, TRUE, FALSE>>
        /\ fres.x_clean = SubSeq(ScenarioX, 1, 5)
        /\ fres.y_clean = SubSeq(ScenarioY, 1, 5)
        /\ fres.err = "none"
        /\ RLess(<<999, 1000>>, fres.r2)

\* C10 amended: in the scenario the z-score of (1000, 500) is below 3 (its
\* square is 103335/20668 < 9), so all six points are retained and the line
\* is fitted to all six: -4850/601 + (3051/6010) x, R^2 = 3102867/3105367.
C10_OutlierRetained ==
    (Returned /\ IsScenario) =>
        /\ \A i \in 1..6 : fres.mask[i]
        /\ zscores2(fy)[6] = <<103335, 20668>>
        /\ fres.x_clean = ScenarioX
        /\ fres.y_clean = ScenarioY
        /\ fres.err = "none"
        /\ fres.p_clean.coef = << <<-4850, 601>>, <<3051, 6010>> >>
        /\ fres.r2 = <<3102867, 3105367>>

C10_Witness == Returned /\ IsScenario /\ fres.err = "none" /\ Len(fres.x_clean) = 6

----------------------------------------------------------------------------
(* Properties of the program and its files, checked under Spec *)

FitStages == {"load_data", "fit_az", "save_az_write", "fit_el", "save_el_write",
              "save_summary", "summary_write"}

\* a fit-mode run in which any stage fails leaves both model files and the
\* summary report exactly as they were when the run started
NoPartialSideEffects ==
    (pc = "failed" /\ locals.stage \in FitStages) => files = files0

\* C1: a failed fit-mode run has no partial side effects; stated for the
\* stage the claim singles out: a run whose elevation fit fails leaves the
\* azimuth file, the elevation file and the summary report as they were
\* when the run started.
C1_FailedElFitChangesNothing ==
    (pc = "failed" /\ locals.stage = "fit_el") => files = files0

\* the model a save_model call on slot f last handed to joblib.dump
SavedModel(f) ==
    IF lastSaved[f].pending # NoModel THEN lastSaved[f].pending ELSE lastSaved[f].model

\* after completed saves, load_model returns the model last saved to the slot
C6_LoadsLastSaved ==
    \A f \in Slots :
        (lastSaved[f].model # NoModel /\ lastSaved[f].pending = NoModel) =>
            load_model(files[f]) = [err |-> "none", model |-> lastSaved[f].model]

\* a step of save_model on one slot leaves the file of the other slot alone
C6_OtherSlotUnchanged ==
    /\ pc \in {"save_az", "save_az_write"} => files'[ElFile] = files[ElFile]
    /\ pc \in {"save_el", "save_el_write"} => files'[AzFile] = files[AzFile]

\* C6: after any sequence of saves, load of a slot returns the model most
\* recently saved to it (a save overwrites), and a save to one slot leaves
\* the content of the other slot unchanged.
C6_SaveOverwritesOwnSlot == []C6_LoadsLastSaved /\ [][C6_OtherSlotUnchanged]_vars

\* save_model on the azimuth slot has just overwritten a different complete
\* model, the elevation file exists and is as it was
C6_Witness ==
    /\ pc = "fit_el"
    /\ load_model(files0[AzFile]).err = "none"
    /\ load_model(files0[AzFile]).model # lastSaved[AzFile].model
    /\ load_model(files[AzFile]).model = lastSaved[AzFile].model
    /\ files[ElFile].exists /\ files[ElFile] = files0[ElFile]

\* C7: whatever point a save was interrupted at, load_model of the slot
\* fails, or returns the complete model stored before, or the complete new
\* model; a truncated file is never accepted as a model.
C7_NoTruncatedModel ==
    \A f \in Slots :
        LET r == load_model(files[f])
        IN  \/ r.err # "none"
            \/ /\ r.model # NoModel
               /\ r.model \in {lastSaved[f].model, lastSaved[f].pending}
               /\ files[f].data = dumps(r.model)

\* a process was killed while it overwrote a complete model: the file holds
\* part of the new pickle and load_model fails on it
C7_Witness ==
    /\ pc = "crashed"
    /\ \E f \in Slots :
          /\ wr.name = f
          /\ load_model(files0[f]).err = "none"
          /\ Len(files[f].data) \in 1..4
          /\ load_model(files[f]).err = "EOFError"

PredictSlot == IF locals.stage = "predict_az" THEN AzFile ELSE ElFile

\* C8: predicting from a slot that was never saved fails with
\* ModelNotFoundError.
C8_ModelNotFound ==
    (pc = "failed" /\ locals.stage \in {"predict_az", "predict_el"}
        /\ ~files[PredictSlot].exists)
    => err = "ModelNotFoundError"

\* query angles at which stored models are compared with their coefficients
Queries == {R(0), R(3), R(-1), <<5, 2>>}

\* what the last print of the process showed
Printed == stdout[Len(stdout)]

\* C9: the model read back from a slot evaluates at every query q to the
\* value of Horner's rule on the coefficients fit_with_zscore returned for
\* it, and that is the value the prediction mode prints.
C9_RoundTrip ==
    /\ \A f \in Slots, q \in Queries :
          load_model(files[f]).err = "none" =>
              Call(load_model(files[f]).model, q) = polyval(q, SavedModel(f).coef)
    /\ (pc = "predict_el" /\ Truthy(args.predict_az)) =>
          Printed.val = Format4(polyval(args.predict_az, SavedModel(AzFile).coef))
    /\ (pc = "exit" /\ Truthy(args.predict_el)) =>
          Printed.val = Format4(polyval(args.predict_el, SavedModel(ElFile).coef))

\* a prediction was printed from a stored line that is not constant
C9_Witness ==
    /\ pc = "predict_el" /\ Truthy(args.predict_az)
    /\ Len(SavedModel(AzFile).coef) = 2
    /\ Printed.text = "Predicted offset_az:"
    /\ Printed.val # Format4(SavedModel(AzFile).coef[1])

----------------------------------------------------------------------------
(* Further properties of fit_with_zscore, checked under SpecFit *)

DefaultZ == R(3)

\* z_i^2 <= n - 1 and z_i^2 = n - 1, over the integers (see C2)
ZSqAtMostNMinus1(i) == Len(fy) * Dev(i) * Dev(i) <= (Len(fy) - 1) * DevSq
ZSqIsNMinus1(i)     == Len(fy) * Dev(i) * Dev(i) = (Len(fy) - 1) * DevSq

----------------------------------------------------------------------------
(* Further properties of the program, checked under Spec *)

\* C12: loading a slot whose stored bytes do not parse into a model fails
\* with CorruptModelError.
C12_CorruptModelError ==
    (pc = "failed" /\ locals.stage \in {"predict_az", "predict_el"}
        /\ files[PredictSlot].exists
        /\ loads(files[PredictSlot].data).err # "none")
    => err = "CorruptModelError"

\* a fit-mode run wrote its report and ended
SummaryWritten ==
    pc = "exit" /\ stdout # <<>> /\ Printed.text = "Summary saved to:"

AxisHeader(k) ==
    IF k = 0 THEN "Model: offset_az = f(azimuth)" ELSE "Model: offset_el = f(elevation)"

AxisResult(k) == IF k = 0 THEN locals.az ELSE locals.el

\* the line "R2 = v" shows r2 to 4 decimal places (nan for an undefined r2)
IsR2Line(line, r2) ==
    /\ line.text = "R2 ="
    /\ line.val = Format4(r2)
    /\ IsFinite(r2) => line.val[2] = 10000

\* C13 as stated: the report consists, for azimuth then elevation, of
\* exactly the lines header, polynomial, blank line, R2 line.
C13_BlankBeforeR2 ==
    SummaryWritten =>
        LET d == files[OutFile].data
        IN  /\ Len(d) = 8
            /\ \A k \in {0, 1} :
                  /\ d[4 * k + 1] = Line(AxisHeader(k), <<>>)
                  /\ d[4 * k + 2] = Line("str(model)", AxisResult(k).p_clean.coef)
                  /\ d[4 * k + 3] = Line("", <<>>)
                  /\ IsR2Line(d[4 * k + 4], AxisResult(k).r2)

\* C13 as amended: the report consists of exactly seven lines: for azimuth
\* the header, the polynomial and the R2 line, then one blank line, then
\* for elevation the header, the polynomial and the R2 line.
C13_BlankBetweenAxes ==
    SummaryWritten =>
        LET d == files[OutFile].data
        IN  /\ Len(d) = 7
            /\ d[4] = Line("", <<>>)
            /\ \A k \in {0, 1} :
                  /\ d[4 * k + 1] = Line(AxisHeader(k), <<>>)
                  /\ d[4 * k + 2] = Line("str(model)", AxisResult(k).p_clean.coef)
                  /\ IsR2Line(d[4 * k + 3], AxisResult(k).r2)

\* a report of two fits with different, finite R2
C13_Witness ==
    /\ SummaryWritten
    /\ IsFinite(locals.az.r2) /\ IsFinite(locals.el.r2)
    /\ locals.az.r2 # locals.el.r2
    /\ Len(files[OutFile].data) = 7

\* the query angles given on the command line
Supplied == {k \in {"az", "el"} :
                (k = "az" /\ args.predict_az # None) \/ (k = "el" /\ args.predict_el # None)}

\* C14: a run given at least one query angle, 0.0 included, is a
\* predict-mode run: it performs no fit, leaves both model files and the
\* summary report as they were, and when it ends it has printed one
\* predicted offset for each angle supplied.
C14_PredictModeForEveryAngle ==
    (Supplied # {}) =>
        /\ pc \notin FitStages \cup {"save_az", "save_el"}
        /\ files = files0
        /\ pc = "exit" => Len(stdout) = Cardinality(Supplied)

====
